---- MODULE Spec2Model ----
(* A model of mastertickets/graphviz.py: the attribute formatter, the     *)
(* Node / Edge objects (dict subclasses compared by content, hashed by    *)
(* identity), the Graph container, its serializer and its renderer.       *)
EXTENDS Integers, Sequences, FiniteSets, TLC

VARIABLES
    nodeObjs,     \* heap of Node instances: id -> [name, attrs, edges]
    edgeObjs,     \* heap of Edge instances: id -> [source, dest, attrs]
    log,          \* Graph.log: TRUE when a logger was passed, FALSE for None
    nodes,        \* Graph.nodes: list of Node ids
    node_map,     \* Graph._node_map: name -> Node id
    attributes,   \* Graph.attributes: ordered key/value pairs
    edges,        \* Graph.edges: list of Edge ids
    last,         \* the last call made by the caller and its outcome
    fmtIn,        \* argument of _handle_attribute_value
    fmtOut        \* its result, NoResult before the call

vars == <<nodeObjs, edgeObjs, log, nodes, node_map, attributes, edges,
          last, fmtIn, fmtOut>>

graphVars == <<nodeObjs, edgeObjs, log, nodes, node_map, attributes, edges>>

-----------------------------------------------------------------------------
(* Bounds *)

MaxNodes == 3      \* Node instances ever constructed
MaxEdges == 1      \* Edge instances ever constructed, under Spec
MaxArcs == 2       \* Edge instances ever constructed, under SpecConnect
MaxTopNodes == 2   \* length of Graph.nodes
MaxTopEdges == 2   \* length of Graph.edges
MaxLen == 2        \* length of a list, tuple or mapping attribute value

-----------------------------------------------------------------------------
(* Python values that can be stored as attribute values *)

StrV(s) == [kind |-> "str", s |-> s, n |-> 0, items |-> <<>>]
IntV(i) == [kind |-> "int", s |-> "", n |-> i, items |-> <<>>]
ListV(xs) == [kind |-> "list", s |-> "", n |-> 0, items |-> xs]
TupleV(xs) == [kind |-> "tuple", s |-> "", n |-> 0, items |-> xs]
\* a builtin dict: items is the sequence of <<key, value>> pairs
DictV(kvs) == [kind |-> "dict", s |-> "", n |-> 0, items |-> kvs]
\* a mapping object that offers the iteritems() method
IterMapV(kvs) == [kind |-> "itermap", s |-> "", n |-> 0, items |-> kvs]

Keys == <<"x", "y", "z", "w">>

Atoms == {StrV("a"), StrV("b"), IntV(1), IntV(2)}

WithKeys(xs) == [i \in 1..Len(xs) |-> <<Keys[i], xs[i]>>]

Elements ==
    Atoms \cup {DictV(WithKeys(<<IntV(1), IntV(2)>>)),
                IterMapV(WithKeys(<<IntV(1), IntV(2)>>)),
                ListV(<<StrV("a"), StrV("b")>>)}

SeqsUpTo(S, n) == UNION {[1..k -> S] : k \in 0..n}

\* values whose repr() is fixed by the language (builtin types only)
BuiltinElements == {v \in Elements : v.kind # "itermap"}

Values ==
    Atoms
    \cup {ListV(xs) : xs \in SeqsUpTo(Elements, MaxLen)}
    \cup {TupleV(xs) : xs \in SeqsUpTo(Elements, MaxLen)}
    \cup {DictV(WithKeys(xs)) : xs \in SeqsUpTo(BuiltinElements, MaxLen)}
    \cup {IterMapV(WithKeys(xs)) : xs \in SeqsUpTo(Elements, MaxLen)}

NoResult == [done |-> FALSE, text |-> ""]

-----------------------------------------------------------------------------
(* str.join *)

RECURSIVE Join(_, _)
Join(sep, strs) ==
    IF Len(strs) = 0 THEN ""
    ELSE IF Len(strs) = 1 THEN strs[1]
    ELSE strs[1] \o sep \o Join(sep, Tail(strs))

(* repr() of the builtin values *)
RECURSIVE Repr(_)
Repr(value) ==
    CASE value.kind = "str" -> "'" \o value.s \o "'"
      [] value.kind = "int" -> ToString(value.n)
      [] value.kind = "list" ->
            "[" \o Join(", ", [i \in 1..Len(value.items) |-> Repr(value.items[i])]) \o "]"
      [] value.kind = "tuple" ->
            IF Len(value.items) = 1 THEN "(" \o Repr(value.items[1]) \o ",)"
            ELSE "(" \o Join(", ", [i \in 1..Len(value.items) |-> Repr(value.items[i])]) \o ")"
      [] value.kind = "dict" ->
            "{" \o Join(", ", [i \in 1..Len(value.items) |->
                       "'" \o value.items[i][1] \o "': " \o Repr(value.items[i][2])]) \o "}"

(* hasattr(value, 'iteritems'): the builtin dict has no such method *)
HasIterItems(value) == value.kind = "itermap"

(* _handle_attribute_value *)
RECURSIVE handle_attribute_value(_)
handle_attribute_value(value) ==
    IF value.kind = "str" THEN value.s
    ELSE IF HasIterItems(value) THEN
        Join(", ", [i \in 1..Len(value.items) |->
                      value.items[i][1] \o "=" \o handle_attribute_value(value.items[i][2])])
    ELSE IF value.kind \in {"list", "tuple"} THEN
        Join(", ", [i \in 1..Len(value.items) |-> handle_attribute_value(value.items[i])])
    ELSE Repr(value)

-----------------------------------------------------------------------------
(* Node and Edge objects *)

Names == {"a", "b"}

\* keyword arguments the caller passes to Node(name, **kwargs); Graph.__getitem__
\* passes none
NodeAttrChoices == {<< <<"label", StrV("start")>> >>}

\* keyword arguments the caller passes to Edge(source, dest, **kwargs);
\* Node.__gt__ and Node.__lt__ pass none
EdgeAttrChoices == {<< <<"style", StrV("dashed")>> >>}

(* Graph.__init__: name=u'graph' *)
name == "graph"

(* Node.__init__ *)
Node(nm, kwargs) == [name |-> nm, attrs |-> kwargs, edges |-> <<>>]

(* Edge.__init__ *)
Edge(source, dest, kwargs) == [source |-> source, dest |-> dest, attrs |-> kwargs]

NodeIds == 1..Len(nodeObjs)
EdgeIds == 1..Len(edgeObjs)

NodeRef(i) == <<"Node", i>>
EdgeRef(j) == <<"Edge", j>>
IsNode(obj) == obj[1] = "Node"
IsEdge(obj) == obj[1] = "Edge"

Range(f) == {f[i] : i \in DOMAIN f}

(* dict.__eq__, which Node inherits: equal when the attribute mappings   *)
(* are equal; name and incident edges take no part                       *)
NodeEq(x, y) == Range(nodeObjs[x].attrs) = Range(nodeObjs[y].attrs)

(* list.index semantics shared by list.remove: the first element that is *)
(* the argument or compares equal to it; 0 when there is none            *)
FirstEqual(lst, x) ==
    IF \E i \in 1..Len(lst) : lst[i] = x \/ NodeEq(lst[i], x)
    THEN CHOOSE i \in 1..Len(lst) :
            /\ lst[i] = x \/ NodeEq(lst[i], x)
            /\ \A j \in 1..(i - 1) : ~(lst[j] = x \/ NodeEq(lst[j], x))
    ELSE 0

RemoveAt(lst, i) == [j \in 1..(Len(lst) - 1) |-> IF j < i THEN lst[j] ELSE lst[j + 1]]

-----------------------------------------------------------------------------
(* Node.__gt__ / Node.__lt__: the new heaps and the returned Edge *)

\* the arc is recorded on the left operand only
gt_selfOnly(self, other) ==
    LET e == Len(edgeObjs) + 1
    IN [edgeObjs |-> Append(edgeObjs, Edge(self, other, <<>>)),
        nodeObjs |-> [nodeObjs EXCEPT ![self].edges = Append(@, e)],
        ret |-> e]

gt(self, other) ==
    LET e == Len(edgeObjs) + 1
        n1 == [nodeObjs EXCEPT ![self].edges = Append(@, e)]
        n2 == [n1 EXCEPT ![other].edges = Append(@, e)]
    IN [edgeObjs |-> Append(edgeObjs, Edge(self, other, <<>>)),
        nodeObjs |-> n2,
        ret |-> e]

lt(self, other) ==
    LET e == Len(edgeObjs) + 1
        n1 == [nodeObjs EXCEPT ![self].edges = Append(@, e)]
        n2 == [n1 EXCEPT ![other].edges = Append(@, e)]
    IN [edgeObjs |-> Append(edgeObjs, Edge(other, self, <<>>)),
        nodeObjs |-> n2,
        ret |-> e]

-----------------------------------------------------------------------------
(* Graph.add *)
add(obj) ==
    IF IsNode(obj) THEN
        [nodes |-> Append(nodes, obj[2]),
         node_map |-> [k \in DOMAIN node_map \cup {nodeObjs[obj[2]].name} |->
                          IF k = nodeObjs[obj[2]].name THEN obj[2] ELSE node_map[k]],
         edges |-> edges]
    ELSE IF IsEdge(obj) THEN
        [nodes |-> nodes, node_map |-> node_map, edges |-> Append(edges, obj[2])]
    ELSE
        [nodes |-> nodes, node_map |-> node_map, edges |-> edges]

(* Graph.__getitem__ *)
getitem(key) ==
    IF key \notin DOMAIN node_map THEN
        LET new_node == Len(nodeObjs) + 1 IN
        [nodeObjs |-> Append(nodeObjs, Node(key, <<>>)),
         node_map |-> [k \in DOMAIN node_map \cup {key} |->
                          IF k = key THEN new_node ELSE node_map[k]],
         nodes |-> Append(nodes, new_node),
         ret |-> new_node]
    ELSE
        [nodeObjs |-> nodeObjs, node_map |-> node_map, nodes |-> nodes,
         ret |-> node_map[key]]

\* pop(key, None): a missing key reaches list.remove(None)
delitem_popDefault(key) ==
    IF key \notin DOMAIN node_map THEN
        [raised |-> "ValueError", node |-> 0, node_map |-> node_map, nodes |-> nodes]
    ELSE
        LET node == node_map[key]
            popped == [k \in DOMAIN node_map \ {key} |-> node_map[k]]
            i == FirstEqual(nodes, node)
        IN IF i = 0
           THEN [raised |-> "ValueError", node |-> node, node_map |-> popped,
                 nodes |-> nodes]
           ELSE [raised |-> "", node |-> node, node_map |-> popped,
                 nodes |-> RemoveAt(nodes, i)]

(* Graph.__delitem__: dict.pop raises KeyError on a missing key and      *)
(* list.remove raises ValueError when no element matches                 *)
delitem(key) ==
    IF key \notin DOMAIN node_map THEN
        [raised |-> "KeyError", node |-> 0, node_map |-> node_map, nodes |-> nodes]
    ELSE
        LET node == node_map[key]
            popped == [k \in DOMAIN node_map \ {key} |-> node_map[k]]
            i == FirstEqual(nodes, node)
        IN IF i = 0
           THEN [raised |-> "ValueError", node |-> node, node_map |-> popped,
                 nodes |-> nodes]
           ELSE [raised |-> "", node |-> node, node_map |-> popped,
                 nodes |-> RemoveAt(nodes, i)]

-----------------------------------------------------------------------------
(* Graph.__str__ *)

\* an Edge is recorded but its endpoints are not followed
RECURSIVE process_skipEndpoints(_, _)
process_skipEndpoints(lst, st) ==
    IF Len(lst) = 0 THEN st
    ELSE
        LET item == Head(lst) IN
        IF item \in st.memo THEN process_skipEndpoints(Tail(lst), st)
        ELSE
            LET st1 == [st EXCEPT !.memo = @ \cup {item}] IN
            IF IsNode(item) THEN
                process_skipEndpoints(Tail(lst),
                    process_skipEndpoints([i \in 1..Len(nodeObjs[item[2]].edges) |->
                                 EdgeRef(nodeObjs[item[2]].edges[i])],
                            [st1 EXCEPT !.nodes = Append(@, item[2])]))
            ELSE
                process_skipEndpoints(Tail(lst),
                                [st1 EXCEPT !.edges = Append(@, item[2])])

\* the destination of an Edge is followed before its source
RECURSIVE process_destFirst(_, _)
process_destFirst(lst, st) ==
    IF Len(lst) = 0 THEN st
    ELSE
        LET item == Head(lst) IN
        IF item \in st.memo THEN process_destFirst(Tail(lst), st)
        ELSE
            LET st1 == [st EXCEPT !.memo = @ \cup {item}] IN
            IF IsNode(item) THEN
                process_destFirst(Tail(lst),
                    process_destFirst([i \in 1..Len(nodeObjs[item[2]].edges) |->
                                 EdgeRef(nodeObjs[item[2]].edges[i])],
                            [st1 EXCEPT !.nodes = Append(@, item[2])]))
            ELSE
                process_destFirst(Tail(lst),
                    process_destFirst(<<NodeRef(edgeObjs[item[2]].source)>>,
                        process_destFirst(<<NodeRef(edgeObjs[item[2]].dest)>>,
                                [st1 EXCEPT !.edges = Append(@, item[2])])))

(* the nested function process(lst); st carries memo, nodes and edges *)
RECURSIVE process(_, _)
process(lst, st) ==
    IF Len(lst) = 0 THEN st
    ELSE
        LET item == Head(lst) IN
        IF item \in st.memo THEN process(Tail(lst), st)
        ELSE
            LET st1 == [st EXCEPT !.memo = @ \cup {item}] IN
            IF IsNode(item) THEN
                process(Tail(lst),
                    process([i \in 1..Len(nodeObjs[item[2]].edges) |->
                                 EdgeRef(nodeObjs[item[2]].edges[i])],
                            [st1 EXCEPT !.nodes = Append(@, item[2])]))
            ELSE
                process(Tail(lst),
                    process(<<NodeRef(edgeObjs[item[2]].dest)>>,
                        process(<<NodeRef(edgeObjs[item[2]].source)>>,
                                [st1 EXCEPT !.edges = Append(@, item[2])])))

(* the two top-level calls of process *)
Traverse ==
    process([i \in 1..Len(edges) |-> EdgeRef(edges[i])],
        process([i \in 1..Len(nodes) |-> NodeRef(nodes[i])],
                [memo |-> {}, nodes |-> <<>>, edges |-> <<>>]))

AttrText(attrs) ==
    Join(", ", [i \in 1..Len(attrs) |->
                  attrs[i][1] \o "=\"" \o handle_attribute_value(attrs[i][2]) \o "\""])

GraphAttrLine(kv) == "\t" \o kv[1] \o "=\"" \o kv[2] \o "\";"

NodeLine(n) ==
    "\t\"" \o nodeObjs[n].name \o "\" [" \o AttrText(nodeObjs[n].attrs) \o "];"

\* the attribute keys an Edge line leaves out
IsEdgeAttr(kv) == kv[1] \notin {"source", "dest"}

EdgeLine(e) ==
    "\t\"" \o nodeObjs[edgeObjs[e].source].name \o "\" -> \""
           \o nodeObjs[edgeObjs[e].dest].name \o "\" ["
           \o AttrText(SelectSeq(edgeObjs[e].attrs, IsEdgeAttr)) \o "];"

(* the list `lines` before it is joined with newlines *)
Lines(t) ==
    <<"digraph \"" \o name \o "\" {">>
    \o [i \in 1..Len(attributes) |-> GraphAttrLine(attributes[i])]
    \o [i \in 1..Len(t.nodes) |-> NodeLine(t.nodes[i])]
    \o [i \in 1..Len(t.edges) |-> EdgeLine(t.edges[i])]
    \o <<"}">>

str == LET t == Traverse IN [nodes |-> t.nodes, edges |-> t.edges, lines |-> Lines(t)]

-----------------------------------------------------------------------------
(* Graph.render: error, returncode and out are what the process produced *)

Cmd == "dot -Tpng"

render(out, error, returncode) ==
    IF (log /\ error # "") \/ returncode # 0 THEN
        IF log THEN
            [raised |-> "", ret |-> out,
             warnings |-> <<[cmd |-> Cmd, rc |-> returncode, error |-> error]>>,
             logCall |-> TRUE]
        ELSE
            \* None has no attribute 'warning'
            [raised |-> "AttributeError", ret |-> "", warnings |-> <<>>,
             logCall |-> TRUE]
    ELSE
        [raised |-> "", ret |-> out, warnings |-> <<>>, logCall |-> FALSE]

-----------------------------------------------------------------------------
(* The caller's operations *)

Init ==
    /\ nodeObjs = <<>>
    /\ edgeObjs = <<>>
    /\ log = FALSE
    /\ nodes = <<>>
    /\ node_map = [k \in {} |-> 0]
    /\ attributes = <<>>
    /\ edges = <<>>
    /\ last = [op |-> "init"]
    /\ fmtIn = StrV("a")
    /\ fmtOut = NoResult

fmtVars == <<fmtIn, fmtOut>>

NewNode(nm, kwargs) ==
    /\ nodeObjs' = Append(nodeObjs, Node(nm, kwargs))
    /\ last' = [op |-> "Node", ret |-> Len(nodeObjs) + 1]
    /\ UNCHANGED <<edgeObjs, log, nodes, node_map, attributes, edges, fmtVars>>

NewEdge(source, dest, kwargs) ==
    /\ edgeObjs' = Append(edgeObjs, Edge(source, dest, kwargs))
    /\ last' = [op |-> "Edge", ret |-> Len(edgeObjs) + 1]
    /\ UNCHANGED <<nodeObjs, log, nodes, node_map, attributes, edges, fmtVars>>

Gt(self, other) ==
    /\ LET r == gt(self, other) IN
        /\ edgeObjs' = r.edgeObjs
        /\ nodeObjs' = r.nodeObjs
        /\ last' = [op |-> "gt", self |-> self, other |-> other, ret |-> r.ret]
    /\ UNCHANGED <<log, nodes, node_map, attributes, edges, fmtVars>>

Lt(self, other) ==
    /\ LET r == lt(self, other) IN
        /\ edgeObjs' = r.edgeObjs
        /\ nodeObjs' = r.nodeObjs
        /\ last' = [op |-> "lt", self |-> self, other |-> other, ret |-> r.ret]
    /\ UNCHANGED <<log, nodes, node_map, attributes, edges, fmtVars>>

Add(obj) ==
    /\ LET r == add(obj) IN
        /\ nodes' = r.nodes
        /\ node_map' = r.node_map
        /\ edges' = r.edges
    /\ last' = [op |-> "add", obj |-> obj]
    /\ UNCHANGED <<nodeObjs, edgeObjs, log, attributes, fmtVars>>

GetItem(key) ==
    /\ LET r == getitem(key) IN
        /\ nodeObjs' = r.nodeObjs
        /\ node_map' = r.node_map
        /\ nodes' = r.nodes
        /\ last' = [op |-> "getitem", key |-> key, ret |-> r.ret]
    /\ UNCHANGED <<edgeObjs, log, attributes, edges, fmtVars>>

DelItem(key) ==
    /\ LET r == delitem(key) IN
        /\ node_map' = r.node_map
        /\ nodes' = r.nodes
        /\ last' = [op |-> "delitem", key |-> key, node |-> r.node, raised |-> r.raised]
    /\ UNCHANGED <<nodeObjs, edgeObjs, log, attributes, edges, fmtVars>>

Str ==
    /\ last' = [op |-> "str", ret |-> str]
    /\ UNCHANGED <<graphVars, fmtVars>>

Render(out, error, returncode) ==
    /\ last' = [op |-> "render", stdin |-> str.lines, out |-> out, error |-> error,
                returncode |-> returncode, res |-> render(out, error, returncode)]
    /\ UNCHANGED <<graphVars, fmtVars>>

(* what the caller may pass to Graph.add *)
Objects == {NodeRef(i) : i \in NodeIds} \cup {EdgeRef(j) : j \in EdgeIds} \cup {<<"Other", 0>>}

(* room left under the bounds *)
CanAdd(obj) ==
    /\ IsNode(obj) => Len(nodes) < MaxTopNodes
    /\ IsEdge(obj) => Len(edges) < MaxTopEdges

CanGet(key) ==
    key \notin DOMAIN node_map => Len(nodeObjs) < MaxNodes /\ Len(nodes) < MaxTopNodes

Next ==
    \/ \E nm \in Names, kwargs \in NodeAttrChoices :
          Len(nodeObjs) < MaxNodes /\ NewNode(nm, kwargs)
    \/ \E s \in NodeIds, d \in NodeIds, kwargs \in EdgeAttrChoices :
          Len(edgeObjs) < MaxEdges /\ NewEdge(s, d, kwargs)
    \/ \E a \in NodeIds, b \in NodeIds : Len(edgeObjs) < MaxEdges /\ Gt(a, b)
    \/ \E a \in NodeIds, b \in NodeIds : Len(edgeObjs) < MaxEdges /\ Lt(a, b)
    \/ \E obj \in Objects : CanAdd(obj) /\ Add(obj)
    \/ \E key \in Names : CanGet(key) /\ GetItem(key)
    \/ \E key \in Names : DelItem(key)
    \/ Str

Spec == Init /\ [][Next]_vars

(* The comparison relations and the serializer on graphs with more arcs *)
NextConnect ==
    \/ \E nm \in Names, kwargs \in NodeAttrChoices :
          Len(nodeObjs) < MaxNodes /\ NewNode(nm, kwargs)
    \/ \E a \in NodeIds, b \in NodeIds : Len(edgeObjs) < MaxArcs /\ Gt(a, b)
    \/ \E a \in NodeIds, b \in NodeIds : Len(edgeObjs) < MaxArcs /\ Lt(a, b)
    \/ \E obj \in Objects : CanAdd(obj) /\ Add(obj)
    \/ Str

SpecConnect == Init /\ [][NextConnect]_vars

(* The renderer, on graphs built with lookup-or-create and the outward *)
(* relation, with and without a logger                                  *)
InitRender ==
    /\ nodeObjs = <<>>
    /\ edgeObjs = <<>>
    /\ log \in BOOLEAN
    /\ nodes = <<>>
    /\ node_map = [k \in {} |-> 0]
    /\ attributes = <<>>
    /\ edges = <<>>
    /\ last = [op |-> "init"]
    /\ fmtIn = StrV("a")
    /\ fmtOut = NoResult

NextRender ==
    \/ \E key \in Names : CanGet(key) /\ GetItem(key)
    \/ \E a \in NodeIds, b \in NodeIds : Len(edgeObjs) < MaxEdges /\ Gt(a, b)
    \/ \E out \in {"", "PNG"}, error \in {"", "syntax error"}, returncode \in {0, 1} :
          Render(out, error, returncode)

SpecRender == InitRender /\ [][NextRender]_vars

-----------------------------------------------------------------------------
(* The formatter on its own *)

InitFmt ==
    /\ nodeObjs = <<>>
    /\ edgeObjs = <<>>
    /\ log = FALSE
    /\ nodes = <<>>
    /\ node_map = [k \in {} |-> 0]
    /\ attributes = <<>>
    /\ edges = <<>>
    /\ last = [op |-> "init"]
    /\ fmtIn \in Values
    /\ fmtOut = NoResult

Format ==
    /\ ~fmtOut.done
    /\ fmtOut' = [done |-> TRUE, text |-> handle_attribute_value(fmtIn)]
    /\ UNCHANGED <<graphVars, last, fmtIn>>

NextFmt == Format

SpecFmt == InitFmt /\ [][NextFmt]_vars

-----------------------------------------------------------------------------
(* Properties of the Graph registry *)

Count(lst, x) == Cardinality({i \in 1..Len(lst) : lst[i] = x})

Listed == Range(nodes)
Registered == {node_map[k] : k \in DOMAIN node_map}

\* C1: a Vertex is in the top-level vertex list if and only if it is in the
\* name->Vertex registry, after any sequence of register / vertex / remove calls.
C1_ListedIffRegistered ==
    \A v \in NodeIds : (v \in Listed) <=> (v \in Registered)

\* C2: vertex(name) called again returns the identical Vertex instance, and
\* that Vertex appears exactly once in the top-level vertex list.
C2_LookupListedOnce ==
    last.op = "getitem" =>
        /\ getitem(last.key).ret = last.ret
        /\ Count(nodes, last.ret) = 1

\* C3: remove(name) on a registered name removes exactly the Vertex registered
\* under that name from the registry and from the top-level vertex list; every
\* other Vertex stays where it was; the arc list and all incident-arc lists
\* are unchanged.
C3_RemoveExactlyThatVertex ==
    [][\A key \in Names :
        (last'.op = "delitem" /\ last'.key = key /\ key \in DOMAIN node_map) =>
            LET v == node_map[key] IN
            /\ v \notin Range(nodes')
            /\ v \notin {node_map'[k] : k \in DOMAIN node_map'}
            /\ \A w \in NodeIds \ {v} :
                  /\ w \in Listed => w \in Range(nodes')
                  /\ w \in Registered => w \in {node_map'[k] : k \in DOMAIN node_map'}
            /\ edges' = edges
            /\ nodeObjs' = nodeObjs
            /\ edgeObjs' = edgeObjs]_vars

\* C4: remove(name) on a name that is not in the registry fails with the
\* not-found condition (KeyError) and leaves the registry, the top-level
\* vertex list and the top-level arc list as they were.
C4_RemoveMissingFails ==
    [][\A key \in Names :
        (last'.op = "delitem" /\ last'.key = key /\ key \notin DOMAIN node_map) =>
            /\ last'.raised = "KeyError"
            /\ node_map' = node_map
            /\ nodes' = nodes
            /\ edges' = edges]_vars

\* a failed removal on a graph that holds a vertex and an arc
C4_Witness ==
    /\ last.op = "delitem"
    /\ last.raised = "KeyError"
    /\ Len(nodes) > 0
    /\ DOMAIN node_map # {}
    /\ Len(edges) > 0

-----------------------------------------------------------------------------
(* Properties of the renderer *)

\* C5: render never raises on renderer failure: whatever the logger setting,
\* the diagnostic text and the exit status, it returns the captured output.
C5_RenderNeverRaises ==
    last.op = "render" =>
        /\ last.res.raised = ""
        /\ last.res.ret = last.out

\* C10: render logs exactly one warning (command, exit code, diagnostic text)
\* when a logger is configured and the process wrote diagnostics or exited
\* non-zero; otherwise it logs nothing and makes no call on the logger.
C10_WarningOnlyWithLogger ==
    last.op = "render" =>
        IF log /\ (last.error # "" \/ last.returncode # 0)
        THEN last.res.warnings =
                <<[cmd |-> Cmd, rc |-> last.returncode, error |-> last.error]>>
        ELSE last.res.warnings = <<>> /\ ~last.res.logCall

-----------------------------------------------------------------------------
(* Properties of the serializer *)

Roots == {NodeRef(nodes[i]) : i \in 1..Len(nodes)} \cup {EdgeRef(edges[i]) : i \in 1..Len(edges)}

\* one step along vertex -> incident arc and arc -> source / destination
Linked(S) ==
    S \cup {EdgeRef(e) : e \in UNION {Range(nodeObjs[x[2]].edges) : x \in {y \in S : IsNode(y)}}}
      \cup {NodeRef(edgeObjs[x[2]].source) : x \in {y \in S : IsEdge(y)}}
      \cup {NodeRef(edgeObjs[x[2]].dest) : x \in {y \in S : IsEdge(y)}}

RECURSIVE Closure(_)
Closure(S) == IF Linked(S) = S THEN S ELSE Closure(Linked(S))

Reachable == Closure(Roots)

\* C6: serialize emits exactly one line for each Vertex and each Arc reachable
\* from the top-level vertices and arcs along vertex->incident-arc and
\* arc->source/destination links, and no vertex or arc line for anything else.
C6_OneLinePerReachable ==
    last.op = "str" =>
        LET r == last.ret IN
        /\ {NodeRef(n) : n \in Range(r.nodes)} = {x \in Reachable : IsNode(x)}
        /\ {EdgeRef(e) : e \in Range(r.edges)} = {x \in Reachable : IsEdge(x)}
        /\ Cardinality(Range(r.nodes)) = Len(r.nodes)
        /\ Cardinality(Range(r.edges)) = Len(r.edges)
        /\ Len(r.lines) = 2 + Len(attributes) + Len(r.nodes) + Len(r.edges)
        /\ \A i \in 1..Len(r.nodes) :
              r.lines[1 + Len(attributes) + i] = NodeLine(r.nodes[i])
        /\ \A i \in 1..Len(r.edges) :
              r.lines[1 + Len(attributes) + Len(r.nodes) + i] = EdgeLine(r.edges[i])

\* a serialization that emits a vertex which is neither listed nor registered,
\* reached through an arc, next to a vertex listed twice
C6_Witness ==
    /\ last.op = "str"
    /\ \E n \in Range(last.ret.nodes) : n \notin Listed /\ n \notin Registered
    /\ \E n \in Listed : Count(nodes, n) = 2
    /\ Len(last.ret.edges) > 0

\* the objects a vertex or an arc leads to, in visiting order
Children(x) ==
    IF IsNode(x)
    THEN [i \in 1..Len(nodeObjs[x[2]].edges) |-> EdgeRef(nodeObjs[x[2]].edges[i])]
    ELSE <<NodeRef(edgeObjs[x[2]].source), NodeRef(edgeObjs[x[2]].dest)>>

\* depth-first first-discovery order with an explicit stack
RECURSIVE Discover(_, _, _)
Discover(stack, seen, order) ==
    IF Len(stack) = 0 THEN order
    ELSE IF Head(stack) \in seen THEN Discover(Tail(stack), seen, order)
    ELSE Discover(Children(Head(stack)) \o Tail(stack),
                  seen \cup {Head(stack)}, Append(order, Head(stack)))

DiscoveryOrder ==
    Discover([i \in 1..Len(nodes) |-> NodeRef(nodes[i])]
             \o [i \in 1..Len(edges) |-> EdgeRef(edges[i])], {}, <<>>)

\* C9: vertex lines appear in depth-first first-discovery order from the
\* top-level vertices then the top-level arcs, arc lines in the first-discovery
\* order of the same traversal, and every vertex line precedes every arc line.
C9_DiscoveryOrder ==
    last.op = "str" =>
        LET vs == SelectSeq(DiscoveryOrder, IsNode)
            as == SelectSeq(DiscoveryOrder, IsEdge)
        IN last.ret.lines =
              <<"digraph \"" \o name \o "\" {">>
              \o [i \in 1..Len(attributes) |-> GraphAttrLine(attributes[i])]
              \o [i \in 1..Len(vs) |-> NodeLine(vs[i][2])]
              \o [i \in 1..Len(as) |-> EdgeLine(as[i][2])]
              \o <<"}">>

\* a serialization whose vertex lines are not in name order, and in which a
\* vertex found through an arc comes before a later top-level vertex
C9_Witness ==
    /\ last.op = "str"
    /\ Len(last.ret.nodes) = 3
    /\ Len(nodes) = 2
    /\ last.ret.nodes[1] = nodes[1]
    /\ last.ret.nodes[3] = nodes[2]
    /\ nodeObjs[last.ret.nodes[1]].name = "b"
    /\ nodeObjs[last.ret.nodes[2]].name = "a"
    /\ Len(last.ret.edges) = 2

-----------------------------------------------------------------------------
(* Properties of the comparison relations *)

IsConnect(op) == op \in {"gt", "lt"}

\* C7 as stated: connecting A to B, distinct or not, appends exactly one new
\* Arc to A's incident-arc list and exactly one to B's.
C7_OneArcPerEndpoint ==
    [][IsConnect(last'.op) =>
        /\ nodeObjs'[last'.self].edges = Append(nodeObjs[last'.self].edges, last'.ret)
        /\ nodeObjs'[last'.other].edges = Append(nodeObjs[last'.other].edges, last'.ret)]_vars

\* C7: A > B creates one new Arc with source A and destination B (A < B: source
\* B, destination A), returns it, and appends it once to the incident-arc list
\* of each endpoint when A and B are distinct, twice to the one list when A is
\* B; no other incident-arc list and no top-level list of the Graph changes.
C7_ConnectAppends ==
    [][IsConnect(last'.op) =>
        LET a == last'.self
            b == last'.other
            e == last'.ret
        IN
        /\ e = Len(edgeObjs) + 1
        /\ Len(edgeObjs') = e
        /\ \A j \in EdgeIds : edgeObjs'[j] = edgeObjs[j]
        /\ edgeObjs'[e].source = (IF last'.op = "gt" THEN a ELSE b)
        /\ edgeObjs'[e].dest = (IF last'.op = "gt" THEN b ELSE a)
        /\ a # b => /\ nodeObjs'[a].edges = Append(nodeObjs[a].edges, e)
                    /\ nodeObjs'[b].edges = Append(nodeObjs[b].edges, e)
        /\ a = b => nodeObjs'[a].edges = nodeObjs[a].edges \o <<e, e>>
        /\ \A n \in NodeIds \ {a, b} : nodeObjs'[n] = nodeObjs[n]
        /\ \A n \in {a, b} : /\ nodeObjs'[n].name = nodeObjs[n].name
                             /\ nodeObjs'[n].attrs = nodeObjs[n].attrs
        /\ nodes' = nodes
        /\ node_map' = node_map
        /\ edges' = edges]_vars

\* an arc between two distinct vertices, one of which already had an arc
C7_Witness ==
    /\ last.op = "gt"
    /\ last.self # last.other
    /\ Len(nodeObjs[last.self].edges) = 2
    /\ Len(nodeObjs[last.other].edges) = 1
    /\ edgeObjs[last.ret].source = last.self
    /\ edgeObjs[last.ret].dest = last.other

-----------------------------------------------------------------------------
(* Properties of the attribute formatter *)

IsMapping(value) == value.kind \in {"dict", "itermap"}

\* the text the formatting rules assign to a value, by value kind
RECURSIVE FormattedByKind(_)
FormattedByKind(value) ==
    IF value.kind = "str" THEN value.s
    ELSE IF IsMapping(value) THEN
        Join(", ", [i \in 1..Len(value.items) |->
                      value.items[i][1] \o "=" \o FormattedByKind(value.items[i][2])])
    ELSE IF value.kind \in {"list", "tuple"} THEN
        Join(", ", [i \in 1..Len(value.items) |-> FormattedByKind(value.items[i])])
    ELSE Repr(value)

\* C8: a string passes through; a mapping becomes the ", "-joined
\* key=formatted(value) pairs ({x: 1, y: 2} gives "x=1, y=2"); a sequence the
\* ", "-joined formatted elements; anything else its debug representation.
C8_FormatByKind ==
    fmtOut.done => fmtOut.text = FormattedByKind(fmtIn)

====
